---- MODULE Spec2Model ----
(***************************************************************************)
(* Smart Librarian: the conversation controllers (src/llm.py and           *)
(* src/ai/llm.py), the tool executor (src/tools.py, src/ai/tools.py), the  *)
(* safety gate (src/safety.py) and the retriever (src/retriever.py).       *)
(*                                                                         *)
(* Text is a sequence of symbols.  A symbol is a one-character string, a   *)
(* named letter ("a_breve", "t_comma" and their capitals stand for the     *)
(* Romanian letters the word lists use) or the name of a fixed fragment of *)
(* program text (a prompt, a message template) that has no white space at  *)
(* either end.  Optional[str] None is the reserved text NoneValue.         *)
(***************************************************************************)
EXTENDS Integers, Sequences, FiniteSets, TLC

(***************************************************************************)
(* Characters and the str methods the program uses.                        *)
(***************************************************************************)
LOWER ==
    << "a","b","c","d","e","f","g","h","i","j","k","l","m","n","o","p","q",
       "r","s","t","u","v","w","x","y","z","a_breve","t_comma" >>

UPPER ==
    << "A","B","C","D","E","F","G","H","I","J","K","L","M","N","O","P","Q",
       "R","S","T","U","V","W","X","Y","Z","A_breve","T_comma" >>

DIGITS == {"0","1","2","3","4","5","6","7","8","9"}

Range(s) == { s[i] : i \in DOMAIN s }

IsLowerChar(c) == c \in Range(LOWER)

IsUpperChar(c) == c \in Range(UPPER)

\* \s of the re module and the white space of str.strip / str.split
IsSpace(c) == c \in {" ", "\t", "\n"}

\* \w of the re module
IsWordChar(c) == IsLowerChar(c) \/ IsUpperChar(c) \/ c \in DIGITS \/ c = "_"

\* str.lower on one character
LowerChar(c) ==
    IF IsUpperChar(c) THEN LOWER[CHOOSE i \in DOMAIN UPPER : UPPER[i] = c] ELSE c

\* str.lower
lower(text) == [i \in DOMAIN text |-> LowerChar(text[i])]

RECURSIVE lstrip(_)
lstrip(text) ==
    IF text # <<>> /\ IsSpace(Head(text)) THEN lstrip(Tail(text)) ELSE text

RECURSIVE rstrip(_)
rstrip(text) ==
    IF text # <<>> /\ IsSpace(text[Len(text)])
    THEN rstrip(SubSeq(text, 1, Len(text) - 1))
    ELSE text

\* str.strip
strip(text) == rstrip(lstrip(text))

\* str.split(): the maximal runs of characters that are not white space
RECURSIVE SplitFrom(_, _, _)
SplitFrom(text, word, acc) ==
    IF text = <<>>
    THEN IF word = <<>> THEN acc ELSE Append(acc, word)
    ELSE IF IsSpace(Head(text))
         THEN SplitFrom(Tail(text), <<>>,
                        IF word = <<>> THEN acc ELSE Append(acc, word))
         ELSE SplitFrom(Tail(text), Append(word, Head(text)), acc)

split(text) == SplitFrom(text, <<>>, <<>>)

\* str.count of a one-character pattern
count(text, c) == Cardinality({ i \in DOMAIN text : text[i] = c })

\* str.isupper: at least one cased character and no lower-case one
isupper(word) ==
    /\ \E i \in DOMAIN word : IsUpperChar(word[i])
    /\ \A i \in DOMAIN word : ~IsLowerChar(word[i])

\* sep.join(parts)
RECURSIVE join(_, _)
join(sep, parts) ==
    IF parts = <<>> THEN <<>>
    ELSE IF Len(parts) = 1 THEN parts[1]
    ELSE parts[1] \o sep \o join(sep, Tail(parts))

(***************************************************************************)
(* Safety gate (src/safety.py).                                            *)
(***************************************************************************)
SAFETY_WORDS ==
    { <<"i","n","j","u","r","i","i">>,
      <<"b","l","a","s","f","e","m","i","i">>,
      <<"v","u","l","g","a","r","a_breve">>,
      <<"o","b","s","c","e","n","i","t","a_breve","t_comma","i">>,
      <<"j","i","g","n","i","r","i">>,
      <<"u","r","a_breve">>,
      <<"v","i","o","l","e","n","t_comma","a_breve">>,
      <<"a","g","r","e","s","i","v">>,
      <<"a","m","e","n","i","n","t_comma","a","r","e">>,
      <<"d","i","s","c","r","i","m","i","n","a","r","e">>,
      <<"h","a","t","e">>,
      <<"v","i","o","l","e","n","c","e">>,
      <<"o","f","f","e","n","s","i","v","e">>,
      <<"r","a","c","i","s","m">>,
      <<"s","e","x","i","s","m">>,
      <<"d","i","s","c","r","i","m","i","n","a","t","i","o","n">>,
      <<"h","a","r","a","s","s","m","e","n","t">>,
      <<"t","h","r","e","a","t">>,
      <<"a","b","u","s","e">> }

CONFIG_OFFENSIVE_WORDS ==
    { <<"o","b","s","c","e","n","i","t","a_breve","t_comma","i">>,
      <<"i","n","j","u","r","i","i">>,
      <<"b","l","a","s","f","e","m","i","i">>,
      <<"v","u","l","g","a","r","a_breve">>,
      <<"a","g","r","e","s","i","v">>,
      <<"v","i","o","l","e","n","t">>,
      <<"h","a","t","e">>,
      <<"r","a","c","i","s","t">>,
      <<"s","e","x","i","s","t">> }

OFFENSIVE_WORDS == SAFETY_WORDS \cup CONFIG_OFFENSIVE_WORDS

\* Each pattern is \b(w|w..)\b or \b(w|w)\s+(w|w)\b: a sequence of
\* alternations, one per word, the words separated by white space.
OFFENSIVE_PATTERNS ==
    << << {<<"h","a","t","e">>, <<"u","r","a_breve">>},
          {<<"s","p","e","e","c","h">>, <<"v","o","r","b","i","r","e">>} >>,
       << {<<"k","i","l","l">>, <<"u","c","i","d","e">>, <<"o","m","o","r">>} >>,
       << {<<"v","i","o","l","e","n","c","e">>,
           <<"v","i","o","l","e","n","t_comma","a_breve">>} >>,
       << {<<"r","a","c","i","s","t">>, <<"r","a","s","i","s","t">>} >>,
       << {<<"s","e","x","i","s","t">>} >>,
       << {<<"d","i","s","c","r","i","m","i","n","a","t","i","o","n">>,
           <<"d","i","s","c","r","i","m","i","n","a","r","e">>} >> >>

\* re.sub(r"\s+", " ", text): every run of white space becomes one space
RECURSIVE CollapseSpaces(_)
CollapseSpaces(text) ==
    IF text = <<>> THEN <<>>
    ELSE IF IsSpace(Head(text))
         THEN <<" ">> \o CollapseSpaces(lstrip(text))
         ELSE <<Head(text)>> \o CollapseSpaces(Tail(text))

\* re.sub(r"[^\w\s]", " ", text): punctuation becomes a space
RemovePunctuation(text) ==
    [i \in DOMAIN text |->
        IF IsWordChar(text[i]) \/ IsSpace(text[i]) THEN text[i] ELSE " "]

\* normalize_text without its str.lower
NormalizeKeepingCase(text) == RemovePunctuation(CollapseSpaces(strip(text)))

normalize_text(text) == RemovePunctuation(CollapseSpaces(strip(lower(text))))

contains_offensive_words(text) ==
    \E w \in Range(split(normalize_text(text))) : w \in OFFENSIVE_WORDS

\* re.search(pattern, normalized): the normalized text holds only word
\* characters and spaces, so \b...\b delimits whole words and \s+ separates
\* two consecutive ones.
PatternFound(pattern, words) ==
    \E i \in 1..(Len(words) - Len(pattern) + 1) :
        \A j \in DOMAIN pattern : words[i + j - 1] \in pattern[j]

contains_offensive_patterns(text) ==
    \E p \in DOMAIN OFFENSIVE_PATTERNS :
        PatternFound(OFFENSIVE_PATTERNS[p], split(normalize_text(text)))

MAX_EXCLAMATIONS == 3

MAX_CAPS_WORDS == 2

MIN_CAPS_LEN == 2

is_aggressive_tone(text) ==
    LET exclamations == count(text, "!")
        words == split(text)
        caps_words == Cardinality({ i \in DOMAIN words :
                          isupper(words[i]) /\ Len(words[i]) > MIN_CAPS_LEN })
    IN  exclamations > MAX_EXCLAMATIONS \/ caps_words > MAX_CAPS_WORDS

is_offensive(text) ==
    IF text = <<>> \/ strip(text) = <<>> THEN FALSE
    ELSE \/ contains_offensive_words(text)
         \/ contains_offensive_patterns(text)
         \/ is_aggressive_tone(text)

\* the test cases of validate_safety_filter
SAFETY_TEST_CASES ==
    << [text |->
           << "T","h","i","s"," ","i","s"," ","h","a","t","e"," ","s","p",
           "e","e","c","h" >>,
        expected |-> TRUE],
       [text |->
           << "I"," ","h","a","t","e"," ","v","i","o","l","e","n","c","e" >>,
        expected |-> TRUE],
       [text |->
           << "S","T","O","P"," ","S","H","O","U","T","I","N","G","!","!",
           "!" >>,
        expected |-> TRUE],
       [text |->
           << "V","r","e","a","u"," ","o"," ","c","a","r","t","e"," ","d",
           "e","s","p","r","e"," ","p","r","i","e","t","e","n","i","e" >>,
        expected |-> FALSE],
       [text |->
           << "C","e"," ","r","e","c","o","m","a","n","z","i"," ","p","e",
           "n","t","r","u"," ","o"," ","p","o","v","e","s","t","e"," ",
           "f","r","u","m","o","a","s","a_breve","?" >>,
        expected |-> FALSE],
       [text |->
           << "M","u","l","t_comma","u","m","e","s","c"," ","p","e","n",
           "t","r","u"," ","r","e","c","o","m","a","n","d","a","r","e",
           "!" >>,
        expected |-> FALSE] >>

validate_safety_filter ==
    \A i \in DOMAIN SAFETY_TEST_CASES :
        is_offensive(SAFETY_TEST_CASES[i].text) = SAFETY_TEST_CASES[i].expected

(***************************************************************************)
(* State.                                                                  *)
(***************************************************************************)
VARIABLES
    impl,                  \* which SmartLibrarian class the instance is of:
                           \*   "main" (src/llm.py) or "ai" (src/ai/llm.py);
                           \*   for the loader, which data_loader module is
                           \*   called: "main" (src/data_loader.py) or
                           \*   "core" (src/core/data_loader.py)
    profile,               \* which inputs the environment draws from
    conversation_history,  \* SmartLibrarian.conversation_history
    book_summaries_dict,   \* tools.book_summaries_dict, as loaded from JSON
    turns,                 \* number of chat() calls made so far
    tool_calls_seen,       \* number of tool calls the model requested so far
    cleared_at,            \* value of turns at the latest clear_history()
    last,                  \* what the latest call did: its input, the
                           \*   external calls it made, what it returned
    books_cache,           \* BookRetriever._books_cache
    collection,            \* titles of the vectors held by the vector index
    retrieval,             \* the latest retriever call and what it returned
    rebuild,               \* the initialize_vector_store call under way, or
                           \*   the latest one completed
    _global_retriever,     \* retriever._global_retriever
    _global_chatbot,       \* llm._global_chatbot
    threads,               \* the calls of get_retriever() / get_chatbot()
                           \*   under way in each thread
    request_client         \* the client that sent each /api/chat request

ctrlVars ==
    << impl, profile, conversation_history, book_summaries_dict, turns,
       tool_calls_seen, cleared_at, last >>

retrVars == << books_cache, collection, retrieval, rebuild >>

procVars == << _global_retriever, _global_chatbot, threads, request_client >>

vars == << ctrlVars, retrVars, procVars >>

(***************************************************************************)
(* Values exchanged with the language model.                               *)
(***************************************************************************)
\* Optional[str] None
NoneValue == << "<None>" >>

\* x or ""
OrEmpty(x) == IF x = NoneValue THEN <<>> ELSE x

\* Python truth value of an Optional[str]
Truthy(x) == x # NoneValue /\ x # <<>>

\* A JSON document is either malformed or the serialisation of a value; a
\* value is a dict (a function from keys to values) or a list.
Malformed == [json |-> "malformed"]

JsonText(v) == [json |-> "ok", value |-> v]

Dict(items) == [type |-> "dict", items |-> items]

ListValue == [type |-> "list"]

\* json.loads: raises JSONDecodeError on a malformed document
JsonDecodes(s) == s.json = "ok"

json_loads(s) == s.value

\* dict.get(key, default)
DictGet(d, key, default) ==
    IF key \in DOMAIN d.items THEN d.items[key] ELSE default

ToolCall(id, name, arguments) ==
    [id |-> id, type |-> "function",
     function |-> [name |-> name, arguments |-> arguments]]

(***************************************************************************)
(* Tool registry of src/tools.py.                                          *)
(***************************************************************************)
AVAILABLE_TOOLS == {"get_summary_by_title"}

KeyErrorText(title) ==
    << "Cartea '" >> \o title \o << "' nu a fost gasita in baza de date." >>

\* get_summary_by_title(title): [raised, value]
get_summary_by_title(title) ==
    IF title \notin DOMAIN book_summaries_dict
    THEN [raised |-> TRUE, value |-> KeyErrorText(title)]
    ELSE [raised |-> FALSE, value |-> book_summaries_dict[title]]

\* a call that passes `title` on and drops every other key
HasTitle(arguments) ==
    arguments.type = "dict" /\ "title" \in DOMAIN arguments.items

\* tool_function(**arguments) binds exactly the parameter `title`
BindsTitle(arguments) ==
    arguments.type = "dict" /\ DOMAIN arguments.items = {"title"}

\* execute_tool_call(tool_name, arguments): [raised, value, ran] where ran
\* tells whether the body of the tool function was entered
execute_tool_call(tool_name, arguments) ==
    IF tool_name \notin AVAILABLE_TOOLS
    THEN [raised |-> TRUE, ran |-> FALSE,
          value |-> << "Tool '", tool_name,
                       "' not found. Available tools: ['get_summary_by_title']" >>]
    ELSE IF ~BindsTitle(arguments)
    THEN [raised |-> TRUE, ran |-> FALSE,
          value |-> << "Eroare la executarea tool-ului ", tool_name, ": ",
                       "TypeError" >>]
    ELSE LET r == get_summary_by_title(arguments.items.title)
         IN  IF r.raised
             THEN [raised |-> TRUE, ran |-> TRUE,
                   value |-> << "Eroare la executarea tool-ului ", tool_name,
                                ": " >> \o r.value]
             ELSE [raised |-> FALSE, ran |-> TRUE, value |-> r.value]

(***************************************************************************)
(* Conversation history and what a call leaves behind.                     *)
(*                                                                         *)
(* Every history entry carries `turn`, the number of the chat() call that  *)
(* recorded it.  The program never reads it: it only lets a property tell  *)
(* two turns of equal text apart.                                          *)
(***************************************************************************)
\* ChatMessage(role=..., content=...) of src/schema.py: content must be a
\* str, and str_strip_whitespace strips it
ChatMessageValid(content) == content # NoneValue

ChatMessage(role, content) == [role |-> role, content |-> strip(content)]

Entry(role, content, n) ==
    [role |-> ChatMessage(role, content).role,
     content |-> ChatMessage(role, content).content,
     turn |-> n]

\* seq[-n:]
LastN(seq, n) ==
    IF Len(seq) <= n THEN seq ELSE SubSeq(seq, Len(seq) - n + 1, Len(seq))

\* seq[:n]
FirstN(seq, n) == IF Len(seq) <= n THEN seq ELSE SubSeq(seq, 1, n)

RetrievalEvent(query, top_k) ==
    [kind |-> "retrieval", query |-> query, top_k |-> top_k]

ModelEvent(messages, with_tools) ==
    [kind |-> "model", messages |-> messages, tools |-> with_tools]

ToolEvent(tool_call, arguments) ==
    [kind |-> "tool", id |-> tool_call.id, name |-> tool_call.function.name,
     arguments |-> arguments]

\* The exception a failed chat-completion call raises, as text
APIError == << "APIError" >>

\* The exception ChatMessage raises for a content that is no str, as text
ValidationError == << "ValidationError" >>

JSONDecodeError == << "JSONDecodeError" >>

(***************************************************************************)
(* SmartLibrarian of src/llm.py.                                           *)
(***************************************************************************)
SYSTEM_PROMPT == << "SYSTEM_PROMPT" >>

DEFAULT_TOP_K == 3

HISTORY_WINDOW == 6

safety_response ==
    << "As prefera sa pastram conversatia intr-un limbaj adecvat. Poti reformula, te rog?" >>

error_response(e) ==
    << "Ne pare rau, a aparut o eroare: " >> \o e \o << ". Te rog incearca din nou." >>

BookLine(i, book) ==
    << ToString(i), ". **" >> \o book.title \o << "** - " >>
        \o book.short_summary \o << " (Teme: " >> \o join(<< ", " >>, book.themes)
        \o << ")" >>

\* _create_context_message, given what retriever.search_books returned
_create_context_message(books) ==
    IF books = <<>>
    THEN << "Nu am gasit carti relevante pentru aceasta cautare in baza de date." >>
    ELSE join(<< "\n" >>,
              << << "Carti relevante din baza de date:" >> >>
                  \o [i \in DOMAIN books |-> BookLine(i, books[i])])

\* the slice of the history _prepare_messages copies into the request
HistoryForRequest == LastN(conversation_history, HISTORY_WINDOW)

_prepare_messages(user_query, books) ==
    << [role |-> "system", content |-> SYSTEM_PROMPT] >>
        \o HistoryForRequest
        \o << [role |-> "system",
               content |-> << "Context pentru aceasta cautare:\n" >>
                               \o _create_context_message(books)],
              [role |-> "user", content |-> user_query] >>

\* One iteration of the loop of _handle_tool_calls: [results, events]
HandleOne(tool_call) ==
    LET function_name == tool_call.function.name
        function_args == tool_call.function.arguments
    IN  IF ~JsonDecodes(function_args)
        THEN [results |-> << << "Eroare la parsarea argumentelor pentru ",
                                function_name >> >>,
              events |-> <<>>]
        ELSE LET arguments == json_loads(function_args)
                 r == execute_tool_call(function_name, arguments)
             IN  [results |-> << IF r.raised
                                 THEN << "Eroare la executarea tool-ului: " >>
                                          \o r.value
                                 ELSE r.value >>,
                  events |-> << ToolEvent(tool_call, arguments) >>]

\* _handle_tool_calls: the results in order, and the executor calls made
RECURSIVE _handle_tool_calls(_)
_handle_tool_calls(tool_calls) ==
    IF tool_calls = <<>> THEN [results |-> <<>>, events |-> <<>>]
    ELSE LET one == HandleOne(Head(tool_calls))
             rest == _handle_tool_calls(Tail(tool_calls))
         IN  [results |-> one.results \o rest.results,
              events |-> one.events \o rest.events]

\* a gate that looks the words of the raw input up, without normalize_text
RawWordCheck(user_input) ==
    \E w \in Range(split(user_input)) : w \in OFFENSIVE_WORDS

\* the safety check at the head of chat()
SafetyCheck(user_input) == is_offensive(user_input)

\* the except branch of chat(), entered with the history as it is by then
ChatFailed(history, user_input, n, e, events) ==
    [history |-> history \o << Entry("user", user_input, n),
                               Entry("assistant", error_response(e), n) >>,
     events |-> events, raised |-> FALSE, result |-> error_response(e)]

\* SmartLibrarian.chat(user_input) of src/llm.py.  books is what the
\* retriever returns, r1 and r2 what the two chat-completion calls do.
chat(user_input, books, r1, r2) ==
    LET n == turns + 1
        h == conversation_history
        user == Entry("user", user_input, n)
    IN  IF SafetyCheck(user_input)
        THEN [history |-> h \o << user, Entry("assistant", safety_response, n) >>,
              events |-> <<>>, raised |-> FALSE, result |-> safety_response]
        ELSE
        LET messages == _prepare_messages(user_input, books)
            ev1 == << RetrievalEvent(user_input, DEFAULT_TOP_K),
                      ModelEvent(messages, TRUE) >>
        IN  IF r1.raised THEN ChatFailed(h, user_input, n, APIError, ev1)
            ELSE
            LET first_content == OrEmpty(r1.content)
                handled == _handle_tool_calls(r1.tool_calls)
                tool_results == join(<< "\n", "\n" >>, handled.results)
                follow_up == r1.tool_calls # <<>> /\ tool_results # <<>>
                follow_up_messages ==
                    messages \o
                    << [role |-> "assistant", content |-> first_content],
                       [role |-> "system",
                        content |-> << "Rezultate tool: " >> \o tool_results] >>
                ev2 == ev1 \o handled.events \o
                       (IF follow_up
                        THEN << ModelEvent(follow_up_messages, FALSE) >>
                        ELSE <<>>)
            IN  IF follow_up /\ r2.raised
                THEN ChatFailed(h, user_input, n, APIError, ev2)
                ELSE
                LET final_response ==
                        IF follow_up THEN r2.content ELSE first_content
                IN  IF ~ChatMessageValid(final_response)
                    THEN ChatFailed(h \o << user >>, user_input, n,
                                    ValidationError, ev2)
                    ELSE [history |-> h \o << user,
                                  Entry("assistant", final_response, n) >>,
                          events |-> ev2, raised |-> FALSE,
                          result |-> final_response]

\* a clear that keeps the latest exchange
KeepLastExchange == LastN(conversation_history, 2)

\* SmartLibrarian.clear_history / get_history of src/llm.py
clear_history == <<>>

get_history == conversation_history

(***************************************************************************)
(* SmartLibrarian of src/ai/llm.py.  Its history holds plain dicts: user,  *)
(* assistant (with or without tool_calls) and tool messages.               *)
(***************************************************************************)
AI_CONTEXT_WINDOW == 10

AI_FOLLOW_UP_WINDOW == 15

system_message == [role |-> "system", content |-> << "AI_SYSTEM_PROMPT" >>]

\* get_available_books of src/ai/tools.py: the titles of the parsed corpus
ai_get_available_books == [i \in DOMAIN books_cache |-> books_cache[i].title]

\* get_summary_by_title of src/ai/tools.py: summaries.get(title, "")
ai_get_summary_by_title(title) ==
    IF title \in DOMAIN book_summaries_dict
    THEN book_summaries_dict[title]
    ELSE <<>>

AvailableBooksText == join(<< ", " >>, ai_get_available_books)

\* SmartLibrarian._call_function: every exception becomes a text
_call_function(function_name, arguments, books) ==
    IF function_name = "get_available_books"
    THEN << "Available books in database: " >> \o AvailableBooksText
    ELSE IF function_name \in {"get_summary_by_title", "search_books"}
            /\ arguments.type # "dict"
    THEN << "Error executing ", function_name, ": ", "AttributeError" >>
    ELSE IF function_name = "get_summary_by_title"
    THEN LET title == DictGet(arguments, "title", <<>>)
             summary == ai_get_summary_by_title(title)
         IN  IF Truthy(summary)
             THEN << "Summary for '" >> \o title \o << "':\n" >> \o summary
             ELSE << "No summary found for '" >> \o title
                      \o << "'. Available books are: " >> \o AvailableBooksText
    ELSE IF function_name = "search_books"
    THEN LET query == DictGet(arguments, "query", <<>>)
         IN  IF books # <<>>
             THEN << "Found ", ToString(Len(books)), " books matching '" >>
                      \o query \o << "':\n" >>
                      \o join(<< "\n", "\n" >>,
                              [i \in DOMAIN books |->
                                  << "**" >> \o books[i].title \o << "** - " >>
                                      \o books[i].short_summary])
             ELSE << "No books found matching '" >> \o query
                      \o << "'. Available books: " >> \o AvailableBooksText
    ELSE << "Unknown function: ", function_name >>

\* The loop over response_message.tool_calls in chat(): the tool messages
\* appended, the calls made, and whether json.loads raised on the way
RECURSIVE AiToolLoop(_, _, _)
AiToolLoop(tool_calls, books, n) ==
    IF tool_calls = <<>>
    THEN [entries |-> <<>>, events |-> <<>>, raised |-> FALSE]
    ELSE LET tool_call == Head(tool_calls)
         IN  IF ~JsonDecodes(tool_call.function.arguments)
             THEN [entries |-> <<>>, events |-> <<>>, raised |-> TRUE]
             ELSE
             LET arguments == json_loads(tool_call.function.arguments)
                 function_result ==
                     _call_function(tool_call.function.name, arguments, books)
                 rest == AiToolLoop(Tail(tool_calls), books, n)
             IN  [entries |-> << [role |-> "tool",
                                  tool_call_id |-> tool_call.id,
                                  content |-> function_result,
                                  turn |-> n] >> \o rest.entries,
                  events |-> << ToolEvent(tool_call, arguments) >> \o rest.events,
                  raised |-> rest.raised]

\* the slices of the history the two requests carry
AiFirstWindow(history) == LastN(history, AI_CONTEXT_WINDOW)

AiFollowUpWindow(history) == LastN(history, AI_FOLLOW_UP_WINDOW)

\* SmartLibrarian.chat(user_input) of src/ai/llm.py.  books is what a
\* search_books tool call gets from the retriever, r1 and r2 what the two
\* chat-completion calls do.  raised: the call ended in an exception.
ai_chat(user_input, books, r1, r2) ==
    LET n == turns + 1
        h1 == conversation_history
                  \o << [role |-> "user", content |-> user_input, turn |-> n] >>
        messages == << system_message >> \o AiFirstWindow(h1)
        ev1 == << ModelEvent(messages, TRUE) >>
    IN  IF r1.raised
        THEN [history |-> h1, events |-> ev1, raised |-> TRUE,
              result |-> NoneValue]
        ELSE IF r1.tool_calls = <<>>
        THEN [history |-> h1 \o << [role |-> "assistant",
                                    content |-> r1.content, turn |-> n] >>,
              events |-> ev1, raised |-> FALSE, result |-> r1.content]
        ELSE
        LET h2 == h1 \o << [role |-> "assistant", content |-> r1.content,
                            tool_calls |-> r1.tool_calls, turn |-> n] >>
            loop == AiToolLoop(r1.tool_calls, books, n)
            h3 == h2 \o loop.entries
            follow_up_messages == << system_message >> \o AiFollowUpWindow(h3)
            ev2 == ev1 \o loop.events
            ev3 == ev2 \o << ModelEvent(follow_up_messages, FALSE) >>
        IN  IF loop.raised
            THEN [history |-> h3, events |-> ev2, raised |-> TRUE,
                  result |-> NoneValue]
            ELSE IF r2.raised
            THEN [history |-> h3, events |-> ev3, raised |-> TRUE,
                  result |-> NoneValue]
            ELSE [history |-> h3 \o << [role |-> "assistant",
                                        content |-> r2.content, turn |-> n] >>,
                  events |-> ev3, raised |-> FALSE, result |-> r2.content]

\* SmartLibrarian.clear_history of src/ai/llm.py
ai_clear_history == <<>>

\* SmartLibrarian.get_history of src/ai/llm.py: [raised, value]
ai_get_history ==
    LET shown == SelectSeq(conversation_history,
                           LAMBDA m : m.role \in {"user", "assistant"})
    IN  IF \E i \in DOMAIN shown : ~ChatMessageValid(shown[i].content)
        THEN [raised |-> TRUE, value |-> <<>>]
        ELSE [raised |-> FALSE,
              value |-> [i \in DOMAIN shown |->
                            [role |-> shown[i].role,
                             content |-> shown[i].content,
                             turn |-> shown[i].turn]]]

(***************************************************************************)
(* BookRetriever of src/retriever.py.  A book is [title, short_summary,    *)
(* themes]; a hit of the vector index is [title].                          *)
(***************************************************************************)
HasBook(title) == \E i \in DOMAIN books_cache : books_cache[i].title = title

\* _get_book_by_title: the first cached book of that title (HasBook holds)
_get_book_by_title(title) ==
    books_cache[CHOOSE i \in DOMAIN books_cache :
                    /\ books_cache[i].title = title
                    /\ \A j \in 1..(i - 1) : books_cache[j].title # title]

\* the loop of search_books over the hits VectorStore.search returned
RECURSIVE search_books(_)
search_books(hits) ==
    IF hits = <<>> THEN <<>>
    ELSE (IF HasBook(Head(hits).title)
          THEN << _get_book_by_title(Head(hits).title) >>
          ELSE <<>>) \o search_books(Tail(hits))

\* the number of neighbours get_similar_books asks the index for
SimilarQuerySize(top_k) == top_k + 1

\* the slice of get_similar_books without its filter
SliceOnly(similar_books, book_title, top_k) == FirstN(similar_books, top_k)

\* the filter and slice that end get_similar_books
ExcludeReference(similar_books, book_title, top_k) ==
    FirstN(SelectSeq(similar_books, LAMBDA book : book.title # book_title),
           top_k)

\* get_similar_books(book_title, top_k), hits being what the index returns
\* for the query of SimilarQuerySize(top_k) neighbours
get_similar_books(book_title, top_k, hits) ==
    IF ~HasBook(book_title) THEN <<>>
    ELSE ExcludeReference(search_books(hits), book_title, top_k)

\* a conversion that hands the raw distance on as the score
RawDistance(distance) == distance

\* the score VectorStore.search of src/vector_store.py gives a neighbour
HitScore(distance) == 1 - distance

\* VectorStore.search(query, top_k).  outcome is what the embedding call and
\* collection.query did: [failed, neighbours], a neighbour being
\* [title, distance]
vs_search(outcome) ==
    IF outcome.failed THEN <<>>
    ELSE [i \in DOMAIN outcome.neighbours |->
             [title |-> outcome.neighbours[i].title,
              distance |-> outcome.neighbours[i].distance,
              score |-> HitScore(outcome.neighbours[i].distance)]]

\* a loop that gives up at the first hit the catalog lacks
RECURSIVE StopAtDrift(_)
StopAtDrift(search_results) ==
    IF search_results = <<>> \/ ~HasBook(Head(search_results).title)
    THEN <<>>
    ELSE << << _get_book_by_title(Head(search_results).title),
               Head(search_results).score >> >>
             \o StopAtDrift(Tail(search_results))

\* the loop of search_with_scores over the hits VectorStore.search returned:
\* a list of (book, score)
RECURSIVE search_with_scores(_)
search_with_scores(search_results) ==
    IF search_results = <<>> THEN <<>>
    ELSE (IF HasBook(Head(search_results).title)
          THEN << << _get_book_by_title(Head(search_results).title),
                     Head(search_results).score >> >>
          ELSE <<>>) \o search_with_scores(Tail(search_results))

(***************************************************************************)
(* VectorStore of src/vector_store.py.  The collection is known by the     *)
(* titles in the metadata of its vectors; the id of a vector is            *)
(* _generate_book_id of its title, and the collection holds one vector per *)
(* id.                                                                     *)
(***************************************************************************)
\* [a-zA-Z0-9\s]
IsSlugChar(c) ==
    \/ c \in DIGITS
    \/ IsSpace(c)
    \/ /\ IsLowerChar(c) \/ IsUpperChar(c)
       /\ c \notin {"a_breve", "t_comma", "A_breve", "T_comma"}

\* re.sub(r"\s+", "-", text): every run of white space becomes one hyphen
RECURSIVE Hyphenate(_)
Hyphenate(text) ==
    IF text = <<>> THEN <<>>
    ELSE IF IsSpace(Head(text))
         THEN <<"-">> \o Hyphenate(lstrip(text))
         ELSE <<Head(text)>> \o Hyphenate(Tail(text))

_generate_book_id(title) ==
    << "book:" >> \o Hyphenate(strip(SelectSeq(lower(title), IsSlugChar)))

\* no call under way and none made yet
\* no accessor call under way, no instance created, no HTTP request made
NoProcess ==
    /\ _global_retriever = NoneValue
    /\ _global_chatbot = NoneValue
    /\ threads = <<>>
    /\ request_client = <<>>

NoRebuild ==
    [pc |-> "none", books |-> <<>>, force_rebuild |-> FALSE, old |-> {},
     failed |-> FALSE, repeated |-> FALSE]

\* collection.count()
collection_count(coll) == Cardinality(coll)

\* a clear that leaves the vectors where they are
KeepVectors(coll) == coll

\* clear_collection when delete_collection and create_collection succeed
clear_collection(coll) == {}

\* the ids of a batch are all different
DistinctIds(books) ==
    \A i, j \in DOMAIN books :
        i # j => _generate_book_id(books[i].title)
                     # _generate_book_id(books[j].title)

\* add_books_batch(books): the collection afterwards.  embedded are the
\* positions of the books whose embedding call succeeded, add_ok says
\* whether collection.add went through; collection.add rejects a batch
\* that names an id twice and leaves alone an id the collection holds.
add_books_batch(coll, books, embedded, add_ok) ==
    LET batch == SelectSeq([i \in DOMAIN books |->
                               IF i \in embedded THEN books[i]
                               ELSE [title |-> NoneValue]],
                           LAMBDA b : b.title # NoneValue)
        held == { _generate_book_id(t) : t \in coll }
    IN  IF batch = <<>> \/ ~add_ok \/ ~DistinctIds(batch) THEN coll
        ELSE coll \cup { batch[i].title : i \in
                           { k \in DOMAIN batch :
                               _generate_book_id(batch[k].title) \notin held } }

(***************************************************************************)
(* Bounds and the inputs the environment draws from.                       *)
(***************************************************************************)
\* chat() calls in a conversation that draws from every kind of input
MaxTurns == 2

\* chat() calls in a long conversation of plain turns
LongTurns == 9

\* tool calls the model requests in a conversation
MaxToolCalls == 2

\* books in a corpus, neighbours asked of the index
MaxBooks == 3

MaxTopK == 2

\* the largest distance the index reports for a neighbour
MaxDistance == 2

TurnLimit == IF profile = "long" THEN LongTurns ELSE MaxTurns

TITLE_1984 == << "1984" >>

TITLE_HOBBIT == << "The Hobbit" >>

TITLE_DUNE == << "Dune" >>

\* a title the index holds and the corpus does not
TITLE_GONE == << "Withdrawn" >>

Book(title) ==
    [title |-> title, short_summary |-> << "short summary of " >> \o title,
     themes |-> << << "tema" >>, title >>]

\* the content of book_summaries.json
BOOK_SUMMARIES ==
    (TITLE_1984 :> << "detailed summary of 1984" >>)
        @@ (TITLE_HOBBIT :> << "detailed summary of The Hobbit" >>)

DefaultBooks == << Book(TITLE_1984), Book(TITLE_HOBBIT) >>

BenignInput == << "h", "i", " " >>

OffensiveWordInput == << "H", "a", "t", "e", "!" >>

UserInputs ==
    IF profile = "long" THEN {BenignInput}
    ELSE {BenignInput, OffensiveWordInput}

\* what retriever.search_books hands to the controller
RetrievedBooks ==
    IF profile = "long" THEN {<< Book(TITLE_1984) >>}
    ELSE {<<>>, << Book(TITLE_1984) >>}

ValidRequest ==
    [name |-> "get_summary_by_title",
     arguments |-> JsonText(Dict([title |-> TITLE_1984]))]

\* name and JSON arguments of the tool calls the model may request: a valid
\* one, an unknown title, an unknown tool, unparsable arguments, arguments
\* that miss the required key
ToolRequests ==
    IF profile = "long" THEN {ValidRequest}
    ELSE {ValidRequest,
          [name |-> "get_summary_by_title",
           arguments |-> JsonText(Dict([title |-> TITLE_DUNE]))],
          [name |-> "get_weather", arguments |-> JsonText(Dict(<<>>))],
          [name |-> "get_summary_by_title", arguments |-> Malformed],
          [name |-> "get_summary_by_title",
           arguments |-> JsonText(Dict(<<>>))]}

\* the tool_calls of a response: ids are unique in the conversation
ToolCallLists ==
    { [i \in DOMAIN reqs |->
          ToolCall(<< turns + 1, i >>, reqs[i].name, reqs[i].arguments)] :
      reqs \in UNION { [1..k -> ToolRequests] :
                       k \in 0..(MaxToolCalls - tool_calls_seen) } }

NoResponse == [raised |-> FALSE, content |-> NoneValue, tool_calls |-> <<>>]

\* what the first chat-completion call of a turn does: it fails, answers
\* in text (or with no content), or requests tool calls with no content
FirstResponses ==
    (IF profile = "long" THEN {} ELSE {[raised |-> TRUE]})
    \cup { [raised |-> FALSE, content |-> c, tool_calls |-> <<>>] :
           c \in (IF profile = "long" THEN {<< "ANSWER" >>}
                  ELSE {NoneValue, << "ANSWER", "\n" >>}) }
    \cup { [raised |-> FALSE, content |-> NoneValue, tool_calls |-> tcs] :
           tcs \in ToolCallLists \ {<<>>} }

\* what the follow-up chat-completion call of a turn does
FollowUps ==
    (IF profile = "long" THEN {} ELSE {[raised |-> TRUE]})
    \cup { [raised |-> FALSE, content |-> c, tool_calls |-> <<>>] :
           c \in (IF profile = "long" THEN {<< "FINAL" >>}
                  ELSE {NoneValue, << "FINAL" >>}) }

(***************************************************************************)
(* Operations of a conversation.                                           *)
(***************************************************************************)
ModelEvents(events) == SelectSeq(events, LAMBDA e : e.kind = "model")

ToolEvents(events) == SelectSeq(events, LAMBDA e : e.kind = "tool")

NoCall ==
    [op |-> "none", input |-> <<>>, before |-> <<>>, requested |-> <<>>,
     replies |-> <<>>, events |-> <<>>, raised |-> FALSE, result |-> NoneValue]

\* the state a chat() call with outcome o leaves
Finish(user_input, r1, r2, o) ==
    LET replies == FirstN(<< r1, r2 >>, Len(ModelEvents(o.events)))
        requested == IF replies = <<>> \/ r1.raised THEN <<>> ELSE r1.tool_calls
    IN  /\ conversation_history' = o.history
        /\ turns' = turns + 1
        /\ tool_calls_seen' = tool_calls_seen + Len(requested)
        /\ last' = [op |-> "chat", input |-> user_input,
                    before |-> conversation_history, requested |-> requested,
                    replies |-> replies, events |-> o.events,
                    raised |-> o.raised, result |-> o.result]
        /\ UNCHANGED << impl, profile, book_summaries_dict, cleared_at >>
        /\ UNCHANGED retrVars

ChatMain ==
    /\ impl = "main"
    /\ turns < TurnLimit
    /\ \E user_input \in UserInputs :
       \E books \in (IF SafetyCheck(user_input) THEN {<<>>} ELSE RetrievedBooks) :
       \E r1 \in (IF SafetyCheck(user_input) THEN {NoResponse}
                  ELSE FirstResponses) :
       \E r2 \in (IF r1.raised \/ r1.tool_calls = <<>> THEN {NoResponse}
                  ELSE FollowUps) :
           Finish(user_input, r1, r2, chat(user_input, books, r1, r2))
    /\ UNCHANGED procVars

ChatAi ==
    /\ impl = "ai"
    /\ turns < TurnLimit
    /\ \E user_input \in UserInputs :
       \E books \in RetrievedBooks :
       \E r1 \in FirstResponses :
       \E r2 \in (IF r1.raised \/ r1.tool_calls = <<>> THEN {NoResponse}
                  ELSE FollowUps) :
           Finish(user_input, r1, r2, ai_chat(user_input, books, r1, r2))
    /\ UNCHANGED procVars

ClearHistory ==
    /\ conversation_history' =
           (IF impl = "main" THEN clear_history ELSE ai_clear_history)
    /\ cleared_at' = turns
    /\ last' = [NoCall EXCEPT !.op = "clear", !.before = conversation_history]
    /\ UNCHANGED << impl, profile, book_summaries_dict, turns, tool_calls_seen >>
    /\ UNCHANGED retrVars
    /\ UNCHANGED procVars

\* get_history() of the instance: [raised, value]
GetHistory ==
    IF impl = "main" THEN [raised |-> FALSE, value |-> get_history]
    ELSE ai_get_history

InitConversation ==
    /\ impl \in {"main", "ai"}
    /\ conversation_history = <<>>
    /\ book_summaries_dict = BOOK_SUMMARIES
    /\ turns = 0
    /\ tool_calls_seen = 0
    /\ cleared_at = 0
    /\ last = NoCall
    /\ books_cache = DefaultBooks
    /\ collection = {TITLE_1984, TITLE_HOBBIT}
    /\ retrieval = [op |-> "none"]
    /\ rebuild = NoRebuild
    /\ NoProcess

Init == profile = "full" /\ InitConversation

InitLong == profile = "long" /\ InitConversation

Next == ChatMain \/ ChatAi \/ ClearHistory

Spec == Init /\ [][Next]_vars

SpecLong == InitLong /\ [][Next]_vars

(***************************************************************************)
(* Operations of the retriever, over every corpus of distinct titles and   *)
(* every content of the index (titles of the corpus and one it lacks).     *)
(***************************************************************************)
CorpusTitles == {TITLE_1984, TITLE_HOBBIT, TITLE_DUNE}

IndexedTitles == CorpusTitles \cup {TITLE_GONE}

Corpora ==
    { [i \in DOMAIN titles |-> Book(titles[i])] :
      titles \in { t \in UNION { [1..k -> CorpusTitles] : k \in 2..MaxBooks } :
                   \A i, j \in DOMAIN t : i # j => t[i] # t[j] } }

\* VectorStore.search(query, top_k): the n = min(top_k, count) nearest
\* vectors in whatever order the embedding ranks them, or [] when the
\* embedding call or the index query fails
Rankings(top_k) ==
    LET n == IF Cardinality(collection) < top_k
             THEN Cardinality(collection) ELSE top_k
    IN  { [i \in DOMAIN titles |-> [title |-> titles[i]]] :
          titles \in { t \in [1..n -> collection] :
                       \A i, j \in DOMAIN t : i # j => t[i] # t[j] } }

SearchOutcomes(top_k) == Rankings(top_k) \cup {<<>>}

SearchBooks ==
    /\ \E top_k \in 1..MaxTopK :
       \E hits \in SearchOutcomes(top_k) :
           retrieval' = [op |-> "search_books", title |-> <<>>,
                         top_k |-> top_k, hits |-> hits,
                         result |-> search_books(hits)]
    /\ UNCHANGED << books_cache, collection, rebuild >>
    /\ UNCHANGED ctrlVars
    /\ UNCHANGED procVars

GetSimilarBooks ==
    /\ \E book_title \in IndexedTitles :
       \E top_k \in 1..MaxTopK :
       \E hits \in SearchOutcomes(SimilarQuerySize(top_k)) :
           retrieval' = [op |-> "get_similar_books", title |-> book_title,
                         top_k |-> top_k, hits |-> hits,
                         result |-> get_similar_books(book_title, top_k, hits)]
    /\ UNCHANGED << books_cache, collection, rebuild >>
    /\ UNCHANGED ctrlVars
    /\ UNCHANGED procVars

\* collection.query: the n = min(top_k, count) nearest vectors, nearest
\* first, each with its distance (a squared L2 distance: 0 and up)
Neighbours(top_k) ==
    LET n == IF Cardinality(collection) < top_k
             THEN Cardinality(collection) ELSE top_k
    IN  { [i \in 1..n |-> [title |-> t[i], distance |-> d[i]]] :
          << t, d >> \in
              { t \in [1..n -> collection] :
                    \A i, j \in 1..n : i # j => t[i] # t[j] }
              \X { d \in [1..n -> 0..MaxDistance] :
                    \A i, j \in 1..n : i < j => d[i] <= d[j] } }

\* what the embedding call and the index query of one search do
QueryOutcomes(top_k) ==
    { [failed |-> TRUE, neighbours |-> <<>>] }
        \cup { [failed |-> FALSE, neighbours |-> n] : n \in Neighbours(top_k) }

SearchWithScores ==
    /\ \E top_k \in 1..MaxTopK :
       \E outcome \in QueryOutcomes(top_k) :
           retrieval' = [op |-> "search_with_scores", title |-> <<>>,
                         top_k |-> top_k, failed |-> outcome.failed,
                         hits |-> vs_search(outcome),
                         result |-> search_with_scores(vs_search(outcome)),
                         raised |-> FALSE]
    /\ UNCHANGED << books_cache, collection, rebuild >>
    /\ UNCHANGED ctrlVars
    /\ UNCHANGED procVars

InitRetriever ==
    /\ profile = "retriever"
    /\ impl = "main"
    /\ conversation_history = <<>>
    /\ book_summaries_dict = BOOK_SUMMARIES
    /\ turns = 0
    /\ tool_calls_seen = 0
    /\ cleared_at = 0
    /\ last = NoCall
    /\ books_cache \in Corpora
    /\ collection \in SUBSET IndexedTitles
    /\ retrieval = [op |-> "none"]
    /\ rebuild = NoRebuild
    /\ NoProcess

NextRetriever == SearchBooks \/ GetSimilarBooks

SpecRetriever == InitRetriever /\ [][NextRetriever]_vars

NextSearch == SearchBooks \/ SearchWithScores

SpecSearch == InitRetriever /\ [][NextSearch]_vars

(***************************************************************************)
(* initialize_vector_store(books, force_rebuild) of src/vector_store.py,   *)
(* step by step, and the searches of other callers that run meanwhile.     *)
(***************************************************************************)
TITLE_IT == << "I", "t" >>

\* a second title whose id is that of TITLE_IT
TITLE_IT_CAPS == << "I", "T" >>

TITLE_WE == << "W", "e" >>

RebuildTitles == {TITLE_IT, TITLE_IT_CAPS, TITLE_WE}

\* the lists of books of distinct titles
RebuildCorpora ==
    { [i \in DOMAIN titles |-> Book(titles[i])] :
      titles \in { t \in UNION { [1..k -> RebuildTitles] : k \in 0..MaxBooks } :
                   \A i, j \in DOMAIN t : i # j => t[i] # t[j] } }

\* the contents a collection can have: one vector per id
IndexContents ==
    { c \in SUBSET RebuildTitles :
        \A t, u \in c : t # u => _generate_book_id(t) # _generate_book_id(u) }

TitlesOf(books) == { books[i].title : i \in DOMAIN books }

\* the call opens the store, reads the count and decides what to do
StartInitialize ==
    /\ rebuild.pc \in {"none", "done"}
    /\ \E books \in RebuildCorpora, force_rebuild \in BOOLEAN :
           LET needs_data ==
                   collection_count(collection) = 0 \/ force_rebuild
           IN  rebuild' =
                   [pc |-> IF ~needs_data THEN "done"
                           ELSE IF force_rebuild THEN "clear" ELSE "add",
                    books |-> books,
                    force_rebuild |-> force_rebuild,
                    old |-> collection,
                    failed |-> FALSE,
                    repeated |-> /\ rebuild.pc = "done"
                                 /\ rebuild.force_rebuild /\ force_rebuild
                                 /\ ~rebuild.failed
                                 /\ rebuild.books = books]
    /\ retrieval' = [op |-> "none"]
    /\ UNCHANGED << books_cache, collection >>
    /\ UNCHANGED ctrlVars
    /\ UNCHANGED procVars

\* vector_store.clear_collection(): True, or False when chroma raises
ClearCollection ==
    /\ rebuild.pc = "clear"
    /\ \E ok \in BOOLEAN :
           /\ collection' =
                  (IF ok THEN clear_collection(collection) ELSE collection)
           /\ rebuild' = [rebuild EXCEPT !.pc = "add",
                                         !.failed = @ \/ ~ok]
    /\ retrieval' = [op |-> "none"]
    /\ UNCHANGED books_cache
    /\ UNCHANGED ctrlVars
    /\ UNCHANGED procVars

\* what the embedding calls of a batch do: all succeed, or the first fails
EmbeddingOutcomes(books) ==
    {DOMAIN books} \cup {DOMAIN books \ {1}}

\* if books: vector_store.add_books_batch(books)
AddBooksBatch ==
    /\ rebuild.pc = "add"
    /\ \E embedded \in EmbeddingOutcomes(rebuild.books), add_ok \in BOOLEAN :
           /\ collection' =
                  (IF rebuild.books = <<>> THEN collection
                   ELSE add_books_batch(collection, rebuild.books,
                                        embedded, add_ok))
           /\ rebuild' =
                  [rebuild EXCEPT
                      !.pc = "done",
                      !.failed = @ \/ (rebuild.books # <<>>
                                         /\ (~add_ok
                                             \/ embedded # DOMAIN rebuild.books))]
    /\ retrieval' = [op |-> "none"]
    /\ UNCHANGED books_cache
    /\ UNCHANGED ctrlVars
    /\ UNCHANGED procVars

\* VectorStore.search of another caller: seen are the vectors the collection
\* holds when collection.query runs
IndexSearch ==
    /\ retrieval.op = "none"
    /\ retrieval' = [op |-> "vs_search", seen |-> collection]
    /\ UNCHANGED << books_cache, collection, rebuild >>
    /\ UNCHANGED ctrlVars
    /\ UNCHANGED procVars

InitIndex ==
    /\ profile = "index"
    /\ impl = "main"
    /\ conversation_history = <<>>
    /\ book_summaries_dict = BOOK_SUMMARIES
    /\ turns = 0
    /\ tool_calls_seen = 0
    /\ cleared_at = 0
    /\ last = NoCall
    /\ books_cache = DefaultBooks
    /\ collection \in IndexContents
    /\ retrieval = [op |-> "none"]
    /\ rebuild = NoRebuild
    /\ NoProcess

NextIndex ==
    StartInitialize \/ ClearCollection \/ AddBooksBatch \/ IndexSearch

SpecIndex == InitIndex /\ [][NextIndex]_vars

(***************************************************************************)
(* load_books_data of src/data_loader.py.  books is what                   *)
(* parse_markdown_books returned, detailed_summaries what                  *)
(* load_detailed_summaries read from the JSON file.                        *)
(***************************************************************************)
\* load_books_data: [raised, books, summaries], or [raised, error] for the
\* ValueError
\* a load that attaches no detailed summary
LoadWithoutSummaries(books, detailed_summaries) ==
    [raised |-> FALSE,
     books |-> [i \in DOMAIN books |->
                   [detailed_summary |-> NoneValue] @@ books[i]],
     summaries |-> detailed_summaries]

load_books_data(books, detailed_summaries) ==
    LET missing_summaries ==
            SelectSeq([i \in DOMAIN books |-> books[i].title],
                      LAMBDA t : t \notin DOMAIN detailed_summaries)
    IN  IF missing_summaries # <<>>
        THEN [raised |-> TRUE,
              error |-> << "Missing detailed summaries for: ",
                           missing_summaries >>]
        ELSE [raised |-> FALSE,
              books |-> [i \in DOMAIN books |->
                            [detailed_summary |->
                                 detailed_summaries[books[i].title]]
                                @@ books[i]],
              summaries |-> detailed_summaries]

\* load_books_data() of src/core/data_loader.py: the summary is attached
\* when the title has one, and nothing is checked
core_load_books_data(books, summaries) ==
    [raised |-> FALSE,
     books |-> [i \in DOMAIN books |->
                   IF books[i].title \in DOMAIN summaries
                   THEN [detailed_summary |-> summaries[books[i].title]]
                            @@ books[i]
                   ELSE [detailed_summary |-> NoneValue] @@ books[i]],
     summaries |-> summaries]

\* validate_data_consistency() of src/data_loader.py over the parsed books
\* and the loaded JSON: [raised, error] or [raised, value].  error is the
\* list of messages that ". ".join puts together, each a text and the
\* set of titles it prints
validate_data_consistency(books, detailed_summaries) ==
    LET md_titles == { books[i].title : i \in DOMAIN books }
        json_titles == DOMAIN detailed_summaries
        missing_in_json == md_titles \ json_titles
        missing_in_md == json_titles \ md_titles
        error_msg ==
            (IF missing_in_json # {}
             THEN << << "Titles in MD but not in JSON: ", missing_in_json >> >>
             ELSE <<>>)
            \o (IF missing_in_md # {}
                THEN << << "Titles in JSON but not in MD: ", missing_in_md >> >>
                ELSE <<>>)
    IN  IF md_titles # json_titles
        THEN [raised |-> TRUE, error |-> error_msg]
        ELSE [raised |-> FALSE, value |-> TRUE]

\* validate_data_consistency() of src/core/data_loader.py: it only looks
\* whether the two files exist
core_validate_data_consistency(md_exists, json_exists) ==
    IF ~md_exists
    THEN [raised |-> TRUE, error |-> << "Missing book_summaries.md" >>]
    ELSE IF ~json_exists
    THEN [raised |-> TRUE, error |-> << "Missing book_summaries.json" >>]
    ELSE [raised |-> FALSE, value |-> TRUE]

\* the books of the markdown file and the content of the JSON file
MarkdownBooks ==
    { [i \in DOMAIN titles |-> Book(titles[i])] :
      titles \in { t \in UNION { [1..k -> CorpusTitles] : k \in 0..MaxBooks } :
                   \A i, j \in DOMAIN t : i # j => t[i] # t[j] } }

JsonFiles ==
    { [t \in keys |-> << "detailed summary of " >> \o t] :
      keys \in SUBSET CorpusTitles }

LoadBooksData ==
    /\ last.op = "none"
    /\ LET o == IF impl = "core"
                THEN core_load_books_data(last.input, book_summaries_dict)
                ELSE load_books_data(last.input, book_summaries_dict)
       IN  /\ last' = [last EXCEPT !.op = "load_books_data",
                                   !.raised = o.raised,
                                   !.result = IF o.raised THEN o.error
                                              ELSE << o.books, o.summaries >>]
           /\ books_cache' = (IF o.raised THEN books_cache ELSE o.books)
    /\ UNCHANGED << impl, profile, conversation_history, book_summaries_dict,
                    turns, tool_calls_seen, cleared_at >>
    /\ UNCHANGED << collection, retrieval, rebuild >>
    /\ UNCHANGED procVars

\* both files exist in every state of the loader specification
ValidateDataConsistency ==
    /\ last.op = "none"
    /\ LET o == IF impl = "core"
                THEN core_validate_data_consistency(TRUE, TRUE)
                ELSE validate_data_consistency(last.input, book_summaries_dict)
       IN  last' = [last EXCEPT !.op = "validate_data_consistency",
                                !.raised = o.raised,
                                !.result = IF o.raised THEN o.error
                                           ELSE o.value]
    /\ UNCHANGED << impl, profile, conversation_history, book_summaries_dict,
                    turns, tool_calls_seen, cleared_at >>
    /\ UNCHANGED retrVars
    /\ UNCHANGED procVars

InitLoader ==
    /\ profile = "loader"
    /\ impl \in {"main", "core"}
    /\ conversation_history = <<>>
    /\ book_summaries_dict \in JsonFiles
    /\ turns = 0
    /\ tool_calls_seen = 0
    /\ cleared_at = 0
    /\ \E books \in MarkdownBooks : last = [NoCall EXCEPT !.input = books]
    /\ books_cache = <<>>
    /\ collection = {}
    /\ retrieval = [op |-> "none"]
    /\ rebuild = NoRebuild
    /\ NoProcess

NextLoader == LoadBooksData \/ ValidateDataConsistency

SpecLoader == InitLoader /\ [][NextLoader]_vars

(***************************************************************************)
(* parse_markdown_books of src/data_loader.py.  The content of the file is *)
(* a sequence of symbols: "\n", the heading marker "## Title: ", the line   *)
(* prefixes "Rezumat scurt:" and "Teme:", " ", "," and pieces of text.     *)
(***************************************************************************)
TITLE_HEADING == "## Title: "

SUMMARY_PREFIX == "Rezumat scurt:"

THEMES_PREFIX == "Teme:"

\* str.split(sep) for a one-symbol separator
RECURSIVE SplitOn(_, _, _, _)
SplitOn(text, sep, piece, acc) ==
    IF text = <<>> THEN Append(acc, piece)
    ELSE IF Head(text) = sep
         THEN SplitOn(Tail(text), sep, <<>>, Append(acc, piece))
         ELSE SplitOn(Tail(text), sep, Append(piece, Head(text)), acc)

split_on(text, sep) == SplitOn(text, sep, <<>>, <<>>)

\* re.split(r"\n## Title: ", content)
RECURSIVE SplitSections(_, _, _)
SplitSections(content, piece, acc) ==
    IF content = <<>> THEN Append(acc, piece)
    ELSE IF Len(content) >= 2 /\ content[1] = "\n"
            /\ content[2] = TITLE_HEADING
         THEN SplitSections(SubSeq(content, 3, Len(content)), <<>>,
                            Append(acc, piece))
         ELSE SplitSections(Tail(content), Append(piece, Head(content)), acc)

\* line.startswith(prefix), line.replace(prefix, "")
startswith(line, prefix) == line # <<>> /\ line[1] = prefix

replace(line, prefix) == SelectSeq(line, LAMBDA c : c # prefix)

\* the body of the loop over book_sections[1:]: the books one section adds
ParseSection(section) ==
    LET lines == split_on(strip(section), "\n")
    IN  IF Len(lines) < 3 THEN <<>>
        ELSE
        LET title == strip(lines[1])
            rest == [i \in 1..(Len(lines) - 1) |-> strip(lines[i + 1])]
            summary_lines ==
                SelectSeq(rest, LAMBDA l : startswith(l, SUMMARY_PREFIX))
            themes_lines ==
                SelectSeq(rest, LAMBDA l : ~startswith(l, SUMMARY_PREFIX)
                                              /\ startswith(l, THEMES_PREFIX))
            short_summary ==
                IF summary_lines = <<>> THEN <<>>
                ELSE strip(replace(summary_lines[Len(summary_lines)],
                                   SUMMARY_PREFIX))
            themes_str ==
                strip(replace(themes_lines[Len(themes_lines)], THEMES_PREFIX))
            themes ==
                IF themes_lines = <<>> THEN <<>>
                ELSE [i \in DOMAIN split_on(themes_str, ",") |->
                         strip(split_on(themes_str, ",")[i])]
        IN  IF title # <<>> /\ short_summary # <<>> /\ themes # <<>>
            THEN << [title |-> title, short_summary |-> short_summary,
                     themes |-> themes] >>
            ELSE <<>>

RECURSIVE ParseSections(_)
ParseSections(book_sections) ==
    IF book_sections = <<>> THEN <<>>
    ELSE ParseSection(Head(book_sections))
             \o ParseSections(Tail(book_sections))

\* parse_markdown_books(file_path): content is the text of the file, or
\* None when the file does not exist
parse_markdown_books(content) ==
    IF content = NoneValue
    THEN [raised |-> TRUE, books |-> <<>>]
    ELSE [raised |-> FALSE,
          books |-> ParseSections(Tail(SplitSections(content, <<>>, <<>>)))]

\* title blocks in a markdown file
MaxBlocks == 2

BlockTitles == << TITLE_1984, TITLE_HOBBIT, TITLE_DUNE >>

\* a title block as its author wrote it: the title after the heading marker
\* (possibly none), then a summary line or not, a themes line (with themes,
\* with none after the prefix, or no line at all), a further line of text
\* or not
Blocks(i) ==
    [title : {BlockTitles[((i - 1) % Len(BlockTitles)) + 1], <<>>},
     summary : {"present", "absent"},
     themes : {"present", "empty", "absent"},
     extra : BOOLEAN]

\* the text of a block; it ends with a new line
RenderBlock(b) ==
    << TITLE_HEADING >> \o b.title \o << "\n" >>
        \o (IF b.summary = "present"
            THEN << SUMMARY_PREFIX, " " >> \o << "short summary of " >>
                     \o b.title \o << "\n" >>
            ELSE <<>>)
        \o (IF b.themes = "present"
            THEN << THEMES_PREFIX, " ", "tema", ",", " ", "alta tema", "\n" >>
            ELSE IF b.themes = "empty" THEN << THEMES_PREFIX, "\n" >>
            ELSE <<>>)
        \o (IF b.extra THEN << "Note", "\n" >> ELSE <<>>)

\* a file: what precedes the first block, then the blocks, a blank line
\* before each but the first
RECURSIVE RenderBlocks(_)
RenderBlocks(blocks) ==
    IF blocks = <<>> THEN <<>>
    ELSE IF Len(blocks) = 1 THEN RenderBlock(blocks[1])
    ELSE RenderBlock(Head(blocks)) \o << "\n" >> \o RenderBlocks(Tail(blocks))

RenderMarkdown(file) == file.preamble \o RenderBlocks(file.blocks)

\* the file opens with a document heading and a blank line, or directly
\* with its first block
MarkdownFiles ==
    [preamble : {<< "# Carti", "\n", "\n" >>, <<>>},
     blocks : UNION { { b \in [1..k -> UNION { Blocks(i) : i \in 1..k }] :
                        \A i \in 1..k : b[i] \in Blocks(i) } :
                      k \in 0..MaxBlocks }]

ParseMarkdownBooks ==
    /\ last.op = "none"
    /\ LET o == parse_markdown_books(RenderMarkdown(last.input))
       IN  last' = [last EXCEPT !.op = "parse_markdown_books",
                                !.raised = o.raised,
                                !.result = o.books]
    /\ UNCHANGED << impl, profile, conversation_history, book_summaries_dict,
                    turns, tool_calls_seen, cleared_at >>
    /\ UNCHANGED retrVars
    /\ UNCHANGED procVars

InitParser ==
    /\ profile = "parser"
    /\ impl = "main"
    /\ conversation_history = <<>>
    /\ book_summaries_dict = <<>>
    /\ turns = 0
    /\ tool_calls_seen = 0
    /\ cleared_at = 0
    /\ \E file \in MarkdownFiles : last = [NoCall EXCEPT !.input = file]
    /\ books_cache = <<>>
    /\ collection = {}
    /\ retrieval = [op |-> "none"]
    /\ rebuild = NoRebuild
    /\ NoProcess

NextParser == ParseMarkdownBooks

SpecParser == InitParser /\ [][NextParser]_vars

(***************************************************************************)
(* execute_tool_call of src/tools.py on its own, over tool names,          *)
(* arguments and catalogs.                                                 *)
(***************************************************************************)
StrValue == [type |-> "str"]

ToolNames == {"get_summary_by_title", "get_weather", "validate_tool_call"}

\* the value under "title": a known or unknown title, the empty string, or
\* null
TitleValues == {TITLE_1984, TITLE_DUNE, TITLE_GONE, <<>>, NoneValue}

\* what a caller passes as arguments: a dict with or without "title", with
\* or without a key the tool does not declare, or a value that is no dict
ToolArguments ==
    { Dict([k \in keys |-> IF k = "title" THEN t ELSE << "3" >>]) :
      keys \in SUBSET {"title", "top_k"}, t \in TitleValues }
    \cup {ListValue, StrValue}

\* events: one entry when the body of the tool function was entered
ExecuteToolCall ==
    /\ last.op = "none"
    /\ LET o == execute_tool_call(last.input.tool_name, last.input.arguments)
       IN  last' = [last EXCEPT
                       !.op = "execute_tool_call",
                       !.raised = o.raised,
                       !.result = o.value,
                       !.events = IF o.ran
                                  THEN << [kind |-> "tool_function",
                                           name |-> last.input.tool_name] >>
                                  ELSE <<>>]
    /\ UNCHANGED << impl, profile, conversation_history, book_summaries_dict,
                    turns, tool_calls_seen, cleared_at >>
    /\ UNCHANGED retrVars
    /\ UNCHANGED procVars

InitTools ==
    /\ profile = "tools"
    /\ impl = "main"
    /\ conversation_history = <<>>
    /\ book_summaries_dict \in JsonFiles
    /\ turns = 0
    /\ tool_calls_seen = 0
    /\ cleared_at = 0
    /\ \E tool_name \in ToolNames, arguments \in ToolArguments :
           last = [NoCall EXCEPT !.input = [tool_name |-> tool_name,
                                            arguments |-> arguments]]
    /\ books_cache = <<>>
    /\ collection = {}
    /\ retrieval = [op |-> "none"]
    /\ rebuild = NoRebuild
    /\ NoProcess

NextTools == ExecuteToolCall

SpecTools == InitTools /\ [][NextTools]_vars

(***************************************************************************)
(* get_retriever() of src/retriever.py and get_chatbot() of src/llm.py     *)
(* (src/ai/llm.py has the same get_chatbot), called from several threads.  *)
(* A call tests the module global, constructs an instance when it saw      *)
(* None, stores it in the global, and returns what the global then holds;  *)
(* nothing keeps another thread from running between two of these steps.   *)
(***************************************************************************)
\* threads that call the accessors, and calls each of them makes
MaxThreads == 2

MaxCalls == 2

Threads == 1..MaxThreads

Accessors == {"get_retriever", "get_chatbot"}

\* made: the instances the thread constructed; returned: those its calls
\* returned, each with the accessor that returned it
IdleThread ==
    [pc |-> "idle", fn |-> "none", local |-> NoneValue, calls |-> 0,
     made |-> {}, returned |-> {}]

\* an instance: its class, then the thread and the call that constructed
\* it, directly or inside the constructor of SmartLibrarian
Instance(class, t, n, how) == << class, ToString(t), ToString(n), how >>

Global(fn) ==
    IF fn = "get_retriever" THEN _global_retriever ELSE _global_chatbot

\* a thread enters get_retriever() or get_chatbot()
CallAccessor(t) ==
    /\ threads[t].pc = "idle"
    /\ threads[t].calls < MaxCalls
    /\ \E fn \in Accessors :
           threads' = [threads EXCEPT ![t].pc = "test", ![t].fn = fn,
                                      ![t].calls = @ + 1]
    /\ UNCHANGED << _global_retriever, _global_chatbot, request_client >>
    /\ UNCHANGED ctrlVars
    /\ UNCHANGED retrVars

\* if _global_x is None:
TestGlobal(t) ==
    /\ threads[t].pc = "test"
    /\ threads' = [threads EXCEPT ![t].pc =
                      IF Global(threads[t].fn) = NoneValue
                      THEN "construct" ELSE "return"]
    /\ UNCHANGED << _global_retriever, _global_chatbot, request_client >>
    /\ UNCHANGED ctrlVars
    /\ UNCHANGED retrVars

\* BookRetriever() or SmartLibrarian(); the constructor of SmartLibrarian
\* calls get_retriever() itself, taken here as one step
Construct(t) ==
    /\ threads[t].pc = "construct"
    /\ LET n == threads[t].calls
           nested == Instance("BookRetriever", t, n, "nested")
       IN  IF threads[t].fn = "get_retriever"
           THEN /\ threads' =
                       [threads EXCEPT
                           ![t].pc = "store",
                           ![t].local = Instance("BookRetriever", t, n, "direct"),
                           ![t].made = @ \cup {Instance("BookRetriever", t, n, "direct")}]
                /\ UNCHANGED _global_retriever
           ELSE /\ threads' =
                       [threads EXCEPT
                           ![t].pc = "store",
                           ![t].local = Instance("SmartLibrarian", t, n, "direct"),
                           ![t].made =
                               @ \cup {Instance("SmartLibrarian", t, n, "direct")}
                                 \cup (IF _global_retriever = NoneValue
                                       THEN {nested} ELSE {})]
                /\ _global_retriever' =
                       (IF _global_retriever = NoneValue THEN nested
                        ELSE _global_retriever)
    /\ UNCHANGED << _global_chatbot, request_client >>
    /\ UNCHANGED ctrlVars
    /\ UNCHANGED retrVars

\* _global_x = <the new instance>
StoreGlobal(t) ==
    /\ threads[t].pc = "store"
    /\ IF threads[t].fn = "get_retriever"
       THEN /\ _global_retriever' = threads[t].local
            /\ UNCHANGED _global_chatbot
       ELSE /\ _global_chatbot' = threads[t].local
            /\ UNCHANGED _global_retriever
    /\ threads' = [threads EXCEPT ![t].pc = "return", ![t].local = NoneValue]
    /\ UNCHANGED request_client
    /\ UNCHANGED ctrlVars
    /\ UNCHANGED retrVars

\* return _global_x
ReturnGlobal(t) ==
    /\ threads[t].pc = "return"
    /\ threads' = [threads EXCEPT
                      ![t].pc = "idle",
                      ![t].returned =
                          @ \cup {<< threads[t].fn, Global(threads[t].fn) >>}]
    /\ UNCHANGED << _global_retriever, _global_chatbot, request_client >>
    /\ UNCHANGED ctrlVars
    /\ UNCHANGED retrVars

InitSingleton ==
    /\ profile = "singleton"
    /\ impl = "main"
    /\ conversation_history = <<>>
    /\ book_summaries_dict = BOOK_SUMMARIES
    /\ turns = 0
    /\ tool_calls_seen = 0
    /\ cleared_at = 0
    /\ last = NoCall
    /\ books_cache = <<>>
    /\ collection = {}
    /\ retrieval = [op |-> "none"]
    /\ rebuild = NoRebuild
    /\ _global_retriever = NoneValue
    /\ _global_chatbot = NoneValue
    /\ threads = [t \in Threads |-> IdleThread]
    /\ request_client = <<>>

NextSingleton ==
    \E t \in Threads :
        \/ CallAccessor(t)
        \/ TestGlobal(t)
        \/ Construct(t)
        \/ StoreGlobal(t)
        \/ ReturnGlobal(t)

SpecSingleton == InitSingleton /\ [][NextSingleton]_vars

(***************************************************************************)
(* The HTTP backend of backend/main.py.  startup_event has stored the      *)
(* result of get_chatbot() (src/ai/llm.py) in the module global chatbot;   *)
(* the handlers are coroutines that call it synchronously, so requests     *)
(* are served one after another.  A request carries no client identity:    *)
(* request_client records, for the properties only, who sent each one.     *)
(***************************************************************************)
\* clients of the HTTP backend
MaxClients == 2

Clients == 1..MaxClients

\* POST /api/chat: chatbot.chat(request.message); an exception becomes a
\* 500 response
chat_with_ai(client) ==
    /\ _global_chatbot # NoneValue
    /\ turns < TurnLimit
    /\ \E user_input \in UserInputs :
       \E books \in RetrievedBooks :
       \E r1 \in FirstResponses :
       \E r2 \in (IF r1.raised \/ r1.tool_calls = <<>> THEN {NoResponse}
                  ELSE FollowUps) :
           Finish(user_input, r1, r2, ai_chat(user_input, books, r1, r2))
    /\ request_client' = Append(request_client, client)
    /\ UNCHANGED << _global_retriever, _global_chatbot, threads >>

\* DELETE /api/chat/history: chatbot.clear_history()
clear_chat_history(client) ==
    /\ conversation_history' =
           (IF _global_chatbot # NoneValue THEN ai_clear_history
            ELSE conversation_history)
    /\ cleared_at' = turns
    /\ last' = [NoCall EXCEPT !.op = "clear", !.input = client,
                              !.before = conversation_history]
    /\ UNCHANGED << impl, profile, book_summaries_dict, turns, tool_calls_seen >>
    /\ UNCHANGED retrVars
    /\ UNCHANGED procVars

InitBackend ==
    /\ profile = "backend"
    /\ impl = "ai"
    /\ conversation_history = <<>>
    /\ book_summaries_dict = BOOK_SUMMARIES
    /\ turns = 0
    /\ tool_calls_seen = 0
    /\ cleared_at = 0
    /\ last = NoCall
    /\ books_cache = DefaultBooks
    /\ collection = {TITLE_1984, TITLE_HOBBIT}
    /\ retrieval = [op |-> "none"]
    /\ rebuild = NoRebuild
    /\ _global_retriever = Instance("BookRetriever", 0, 1, "direct")
    /\ _global_chatbot = Instance("SmartLibrarian", 0, 1, "direct")
    /\ threads = <<>>
    /\ request_client = <<>>

NextBackend ==
    \E client \in Clients : chat_with_ai(client) \/ clear_chat_history(client)

SpecBackend == InitBackend /\ [][NextBackend]_vars

(***************************************************************************)
(* The safety gate on its own: is_offensive over texts put together from   *)
(* a few pieces, and validate_safety_filter.                               *)
(***************************************************************************)
\* pieces of text a checked input is made of
MaxPieces == 3

TextPieces ==
    { << "h", "a", "t", "e", " " >>,
      << "s", "p", "e", "e", "c", "h" >>,
      << "K", "i", "l", "l", "," >>,
      << "S", "T", "O", "P", " " >>,
      << "O", "K", " " >>,
      << "u", "n" >>,
      << "!", "!" >>,
      << "!" >>,
      << " " >> }

RECURSIVE Concat(_)
Concat(pieces) ==
    IF pieces = <<>> THEN <<>> ELSE Head(pieces) \o Concat(Tail(pieces))

Texts ==
    { Concat(pieces) :
      pieces \in UNION { [1..k -> TextPieces] : k \in 0..MaxPieces } }

\* is_offensive(text) on the text at hand
IsOffensiveCall ==
    /\ last.op = "none"
    /\ last' = [last EXCEPT !.op = "is_offensive",
                            !.result = is_offensive(last.input)]
    /\ UNCHANGED << impl, profile, conversation_history, book_summaries_dict,
                    turns, tool_calls_seen, cleared_at >>
    /\ UNCHANGED retrVars
    /\ UNCHANGED procVars

ValidateSafetyFilter ==
    /\ last.op = "none"
    /\ last' = [last EXCEPT !.op = "validate_safety_filter",
                            !.result = validate_safety_filter]
    /\ UNCHANGED << impl, profile, conversation_history, book_summaries_dict,
                    turns, tool_calls_seen, cleared_at >>
    /\ UNCHANGED retrVars
    /\ UNCHANGED procVars

InitSafety ==
    /\ profile = "safety"
    /\ impl = "main"
    /\ conversation_history = <<>>
    /\ book_summaries_dict = BOOK_SUMMARIES
    /\ turns = 0
    /\ tool_calls_seen = 0
    /\ cleared_at = 0
    /\ \E text \in Texts : last = [NoCall EXCEPT !.input = text]
    /\ books_cache = DefaultBooks
    /\ collection = {TITLE_1984, TITLE_HOBBIT}
    /\ retrieval = [op |-> "none"]
    /\ rebuild = NoRebuild
    /\ NoProcess

NextSafety == IsOffensiveCall \/ ValidateSafetyFilter

SpecSafety == InitSafety /\ [][NextSafety]_vars

(***************************************************************************)
(* Properties.                                                             *)
(***************************************************************************)
IsChat == last.op = "chat"

\* the requests of the latest call, in order
Requests == [i \in DOMAIN ModelEvents(last.events) |->
                ModelEvents(last.events)[i].messages]

\* a model call of the latest call failed
ModelCallFailed == \E i \in DOMAIN last.replies : last.replies[i].raised

\* the ids of the requested tool calls whose arguments are parsable JSON
ParsableIds ==
    LET ok == SelectSeq(last.requested,
                        LAMBDA tc : JsonDecodes(tc.function.arguments))
    IN  [i \in DOMAIN ok |-> ok[i].id]

\* the ids of the tool calls handed to the tool executor, in order
ExecutedIds ==
    [i \in DOMAIN ToolEvents(last.events) |-> ToolEvents(last.events)[i].id]

\* C1: in src/llm.py a chat() call on an input that is_offensive flags
\* returns the fixed refusal, makes no retrieval, model or tool call, and
\* appends exactly the user turn and the refusal turn to the history.
C1_BlockedTurnShortCircuits ==
    (impl = "main" /\ IsChat /\ is_offensive(last.input)) =>
        /\ ~last.raised
        /\ last.result = safety_response
        /\ last.events = <<>>
        /\ conversation_history =
               last.before \o
               << [role |-> "user", content |-> strip(last.input),
                   turn |-> turns],
                  [role |-> "assistant", content |-> safety_response,
                   turn |-> turns] >>

\* a blocked turn that follows an earlier turn of the conversation
C1_Witness ==
    /\ impl = "main"
    /\ IsChat
    /\ is_offensive(last.input)
    /\ last.before # <<>>
    /\ last.result = safety_response

\* C2: the tool calls t1..tn of a first response reach the tool executor
\* once each and in the requested order, whatever happens to an earlier
\* one.  (Stated for the requests whose arguments are parsable: the others
\* cannot be handed to an executor.)
C2_EachToolCallExecutedOnceInOrder ==
    (IsChat /\ last.requested # <<>>) => ExecutedIds = ParsableIds

\* C3: a failing tool call becomes a text result for that call alone: the
\* other calls are executed, the turn is not aborted and chat() returns an
\* answer (no model call failing).
C3_ToolFailureDoesNotAbortTurn ==
    (IsChat /\ last.requested # <<>> /\ ~ModelCallFailed) =>
        /\ ~last.raised
        /\ Len(ToolEvents(last.events)) = Len(ParsableIds)
        /\ Len(Requests) = 2

\* the follow-up request carries the result of every requested tool call
CarriesAllResults(messages) ==
    IF impl = "main"
    THEN \E i \in DOMAIN messages :
             /\ messages[i].role = "system"
             /\ messages[i].content =
                    << "Rezultate tool: " >>
                        \o join(<< "\n", "\n" >>,
                                _handle_tool_calls(last.requested).results)
    ELSE \A k \in DOMAIN last.requested :
             \E i \in DOMAIN messages :
                 /\ messages[i].role = "tool"
                 /\ messages[i].tool_call_id = last.requested[k].id

\* C4: a first response with tool calls is followed by exactly one more
\* model call, which carries the results of all the tool calls and whose
\* content chat() returns; no turn makes more than two model calls.
C4_OneFollowUpCall ==
    /\ IsChat => Len(Requests) <= 2
    /\ (IsChat /\ last.requested # <<>> /\ ~ModelCallFailed) =>
           /\ Len(Requests) = 2
           /\ CarriesAllResults(Requests[2])
           /\ ChatMessageValid(last.replies[2].content) =>
                  last.result = last.replies[2].content

\* C5: in src/llm.py every chat() call that returns appends one user turn
\* and then one assistant turn holding the returned text, so the history
\* has even length and alternates user, assistant.
C5_OneUserOneAssistantPerTurn ==
    /\ (impl = "main" /\ IsChat) =>
           conversation_history =
               last.before \o
               << [role |-> "user", content |-> strip(last.input),
                   turn |-> turns],
                  [role |-> "assistant", content |-> strip(last.result),
                   turn |-> turns] >>
    /\ impl = "main" =>
           /\ Len(conversation_history) % 2 = 0
           /\ \A i \in DOMAIN conversation_history :
                  conversation_history[i].role =
                      (IF i % 2 = 1 THEN "user" ELSE "assistant")

ContextWindow == IF impl = "main" THEN HISTORY_WINDOW ELSE AI_CONTEXT_WINDOW

\* a message of a request that is a turn recorded by an earlier call
IsEarlierTurn(m) == "turn" \in DOMAIN m /\ m.turn < turns

\* a message of a request that is the user turn of the latest call
IsNewUserTurn(m) ==
    m.role = "user" /\ ("turn" \in DOMAIN m => m.turn = turns)

\* C6: once the history holds N + 5 turns, N the context window, the first
\* request of the next turn carries exactly the last N turns recorded
\* before it, and the new user turn once.
C6_ContextIsLastNTurnsPlusNewUser ==
    (IsChat /\ Requests # <<>>
            /\ Len(last.before) >= ContextWindow + 5) =>
        /\ SelectSeq(Requests[1], IsEarlierTurn)
               = LastN(last.before, ContextWindow)
        /\ Len(SelectSeq(Requests[1], IsNewUserTurn)) = 1

\* the history entries the latest call recorded
RecordedNow == SelectSeq(conversation_history, LAMBDA m : m.turn = turns)

\* C7: when a model call of a turn fails, chat() still records the turn:
\* the user turn, then an assistant apology, and no user turn of it is left
\* without an assistant turn after it.
C7_FailedTurnIsRecordedAsPair ==
    (IsChat /\ ModelCallFailed) =>
        /\ RecordedNow # <<>>
        /\ RecordedNow[1].role = "user"
        /\ RecordedNow[Len(RecordedNow)].role = "assistant"
        /\ \A i \in DOMAIN RecordedNow :
               RecordedNow[i].role = "user" =>
                   /\ i < Len(RecordedNow)
                   /\ RecordedNow[i + 1].role = "assistant"

\* C8: after clear_history() get_history() is empty, and no request of a
\* later turn carries a turn recorded before the clear.
C8_ClearDiscardsEveryTurn ==
    /\ last.op = "clear" => GetHistory = [raised |-> FALSE, value |-> <<>>]
    /\ \A i \in DOMAIN Requests :
           \A j \in DOMAIN Requests[i] :
               "turn" \in DOMAIN Requests[i][j] =>
                   Requests[i][j].turn > cleared_at

\* a turn that calls the model after a clear which followed a tool-call turn
C8_Witness ==
    /\ IsChat
    /\ cleared_at >= 1
    /\ turns > cleared_at
    /\ Requests # <<>>
    /\ tool_calls_seen > Len(last.requested)

\* C9: the controller of src/ai/llm.py issues no model request for an
\* input the safety gate classifies as offensive.
C9_AiGateBeforeModel ==
    (impl = "ai" /\ IsChat /\ is_offensive(last.input)) => Requests = <<>>

IsSimilarQuery == retrieval.op = "get_similar_books"

\* C10: get_similar_books(title, top_k) never returns the reference title
\* and never more than top_k books, for a corpus of two or more entries and
\* any ranking the index returns.
C10_SimilarExcludesReference ==
    (IsSimilarQuery /\ Len(books_cache) >= 2) =>
        /\ \A i \in DOMAIN retrieval.result :
               retrieval.result[i].title # retrieval.title
        /\ Len(retrieval.result) <= retrieval.top_k

\* the reference book is the nearest hit and top_k other books come back
C10_Witness ==
    /\ IsSimilarQuery
    /\ Len(books_cache) >= 2
    /\ retrieval.hits # <<>>
    /\ retrieval.hits[1].title = retrieval.title
    /\ Len(retrieval.result) = retrieval.top_k

IsSearch == retrieval.op \in {"search_books", "search_with_scores"}

\* the titles a search returned, in the order returned
ReturnedTitles ==
    [i \in DOMAIN retrieval.result |->
        IF retrieval.op = "search_with_scores"
        THEN retrieval.result[i][1].title
        ELSE retrieval.result[i].title]

CatalogTitles == { books_cache[i].title : i \in DOMAIN books_cache }

\* C11: search_with_scores and search_books return the hits of the index
\* whose title is in the catalog, in the rank order of the index; a hit of
\* an unknown title is skipped, and the result has at most top_k entries
\* and at most as many as the catalog.
C11_DriftedHitsAreDropped ==
    IsSearch =>
        /\ ReturnedTitles =
               SelectSeq([i \in DOMAIN retrieval.hits |->
                             retrieval.hits[i].title],
                         LAMBDA t : t \in CatalogTitles)
        /\ \A i \in DOMAIN retrieval.result :
               retrieval.op = "search_with_scores" =>
                   \E j \in DOMAIN retrieval.hits :
                       /\ retrieval.hits[j].title = ReturnedTitles[i]
                       /\ retrieval.hits[j].score = retrieval.result[i][2]
        /\ Len(retrieval.result) <= retrieval.top_k
        /\ Len(retrieval.result) <= Len(books_cache)

\* a search whose first hit is unknown to the catalog and whose next is not
C11_Witness ==
    /\ retrieval.op = "search_with_scores"
    /\ Len(retrieval.hits) >= 2
    /\ retrieval.hits[1].title \notin CatalogTitles
    /\ retrieval.result # <<>>
    /\ retrieval.result[1][1].title = retrieval.hits[2].title

\* C12: a search on an empty index, or one whose embedding call or index
\* query fails, raises RetrievalUnavailable instead of returning the empty
\* list a search that matched nothing returns.
C12_EmptyOrFailedSearchRaises ==
    (retrieval.op = "search_with_scores"
        /\ (retrieval.failed \/ collection = {})) =>
        retrieval.raised

C14_ScoresInUnitRange ==
    retrieval.op = "search_with_scores" =>
        \A i \in DOMAIN retrieval.result :
            /\ 0 <= retrieval.result[i][2]
            /\ retrieval.result[i][2] <= 1

\* an initialize_vector_store call has returned, no external call having
\* failed on its way
Initialized == rebuild.pc = "done" /\ ~rebuild.failed

C16_IndexHoldsExactlyTheBooks ==
    (Initialized /\ rebuild.books # <<>> /\ DistinctIds(rebuild.books)) =>
        /\ collection = TitlesOf(rebuild.books)
        /\ collection_count(collection) = Len(rebuild.books)

\* C17: a search that runs while a forced rebuild is under way sees the
\* complete old contents of the index or the complete new ones.
C17_SearchNeverSeesPartialRebuild ==
    (retrieval.op = "vs_search" /\ rebuild.force_rebuild
        /\ rebuild.pc \in {"clear", "add"}) =>
        \/ retrieval.seen = rebuild.old
        \/ retrieval.seen = TitlesOf(rebuild.books)

\* the text lower-cased, every character that is neither a word character
\* nor white space replaced by a space
Stripped(text) ==
    [i \in DOMAIN text |->
        IF IsWordChar(text[i]) \/ IsSpace(text[i])
        THEN LowerChar(text[i]) ELSE " "]

\* the spans << i, j >> of the tokens of a text: the maximal runs of
\* characters that are not white space
TokenSpans(text) ==
    { span \in (DOMAIN text) \X (DOMAIN text) :
        /\ span[1] <= span[2]
        /\ \A k \in span[1]..span[2] : ~IsSpace(text[k])
        /\ span[1] > 1 => IsSpace(text[span[1] - 1])
        /\ span[2] < Len(text) => IsSpace(text[span[2] + 1]) }

TokenAt(text, span) == SubSeq(text, span[1], span[2])

\* the token at span b is the one that follows the token at span a
NextToken(text, a, b) ==
    /\ a[2] < b[1]
    /\ \A k \in (a[2] + 1)..(b[1] - 1) : IsSpace(text[k])

\* check (a): a token of the stripped text is an offensive word
WordCheckFires(text) ==
    \E span \in TokenSpans(Stripped(text)) :
        TokenAt(Stripped(text), span) \in OFFENSIVE_WORDS

\* check (b): the tokens of the stripped text hold the words of a pattern,
\* one after the other
PatternCheckFires(text) ==
    LET t == Stripped(text)
    IN  \E p \in DOMAIN OFFENSIVE_PATTERNS :
            LET pattern == OFFENSIVE_PATTERNS[p]
            IN  \E a \in TokenSpans(t) :
                    /\ TokenAt(t, a) \in pattern[1]
                    /\ Len(pattern) = 2 =>
                           \E b \in TokenSpans(t) :
                               /\ NextToken(t, a, b)
                               /\ TokenAt(t, b) \in pattern[2]

\* check (c): more than 3 exclamation marks, or more than 2 words in
\* capitals that are longer than 2 characters
ToneCheckFires(text) ==
    \/ Cardinality({ i \in DOMAIN text : text[i] = "!" }) > 3
    \/ Cardinality({ span \in TokenSpans(text) :
                       /\ span[2] - span[1] + 1 > 2
                       /\ \E k \in span[1]..span[2] : IsUpperChar(text[k])
                       /\ \A k \in span[1]..span[2] : ~IsLowerChar(text[k]) })
           > 2

IsBlank(text) == \A i \in DOMAIN text : IsSpace(text[i])

C19_SafetySelfTestPasses ==
    last.op = "validate_safety_filter" => last.result = TRUE

\* C20: load_books_data fails whenever the titles of the markdown source
\* and the titles of the JSON source differ, whichever side has the extra
\* title.
C20_TitleMismatchFailsLoad ==
    (last.op = "load_books_data"
        /\ TitlesOf(last.input) # DOMAIN book_summaries_dict) =>
        last.raised

\* C21: validate_data_consistency raises exactly when the title set of the
\* markdown source and the title set of the JSON source differ, its message
\* names each non-empty one-sided difference, and it returns True when the
\* two sets are equal.
C21_ValidateRaisesIffTitleSetsDiffer ==
    last.op = "validate_data_consistency" =>
        LET md_titles == TitlesOf(last.input)
            json_titles == DOMAIN book_summaries_dict
        IN  /\ last.raised <=> md_titles # json_titles
            /\ (last.raised /\ md_titles \ json_titles # {}) =>
                   \E i \in DOMAIN last.result :
                       last.result[i][2] = md_titles \ json_titles
            /\ (last.raised /\ json_titles \ md_titles # {}) =>
                   \E i \in DOMAIN last.result :
                       last.result[i][2] = json_titles \ md_titles
            /\ ~last.raised => last.result = TRUE

Malformed_Block(b) ==
    b.title = <<>> \/ b.summary = "absent" \/ b.themes = "absent"

\* C23: parse_markdown_books raises when a title block of the file lacks a
\* non-empty title, a summary line or a themes line, and when it returns,
\* every title declared by a block of the file is among the books returned.
C23_EveryBlockLoadedOrReported ==
    last.op = "parse_markdown_books" =>
        /\ (\E i \in DOMAIN last.input.blocks :
               Malformed_Block(last.input.blocks[i])) => last.raised
        /\ ~last.raised =>
               \A i \in DOMAIN last.input.blocks :
                   last.input.blocks[i].title # <<>> =>
                       last.input.blocks[i].title \in TitlesOf(last.result)

IsExecute == last.op = "execute_tool_call"

\* the arguments miss "title", carry a key the tool does not declare, or
\* are no dict
BreaksSchema(arguments) ==
    \/ arguments.type # "dict"
    \/ "title" \notin DOMAIN arguments.items
    \/ DOMAIN arguments.items \ {"title"} # {}

\* part occurs in text
Contains(text, part) ==
    \E i \in 0..(Len(text) - Len(part)) :
        SubSeq(text, i + 1, i + Len(part)) = part

\* C24: execute_tool_call raises for a tool name that is not registered
\* without entering any tool function, and for a registered tool whose
\* arguments miss "title", carry an undeclared key or are no dict it raises
\* before the tool function is entered.
C24_BadCallFailsBeforeToolRuns ==
    IsExecute =>
        /\ last.input.tool_name \notin AVAILABLE_TOOLS =>
               last.raised /\ last.events = <<>>
        /\ (last.input.tool_name \in AVAILABLE_TOOLS
               /\ BreaksSchema(last.input.arguments)) =>
               last.raised /\ last.events = <<>>

\* a registered tool called with a known title and an undeclared key
C24_Witness ==
    /\ IsExecute
    /\ last.input.tool_name \in AVAILABLE_TOOLS
    /\ last.input.arguments.type = "dict"
    /\ DOMAIN last.input.arguments.items = {"title", "top_k"}
    /\ last.input.arguments.items.title \in DOMAIN book_summaries_dict
    /\ last.raised

\* C25: with a non-empty catalog, execute_tool_call("get_summary_by_title",
\* {"title": t}) for a text t (possibly empty) that is no title of the
\* catalog raises, and the message of the error contains a title of the
\* catalog.
C25_UnknownTitleErrorListsKnownTitle ==
    (IsExecute
        /\ last.input.tool_name = "get_summary_by_title"
        /\ ~BreaksSchema(last.input.arguments)
        /\ last.input.arguments.items.title # NoneValue
        /\ last.input.arguments.items.title \notin DOMAIN book_summaries_dict
        /\ DOMAIN book_summaries_dict # {}) =>
        /\ last.raised
        /\ \E t \in DOMAIN book_summaries_dict : Contains(last.result, t)

\* the instances of a class constructed so far, and the instances an
\* accessor has returned so far
Constructed(class) ==
    { i \in UNION { threads[t].made : t \in DOMAIN threads } :
      i[1] = class }

ReturnedBy(fn) ==
    { r[2] : r \in { x \in UNION { threads[t].returned : t \in DOMAIN threads } :
                     x[1] = fn } }

\* C26: whatever the interleaving of the calls, all calls of get_retriever()
\* return one instance and all calls of get_chatbot() return one instance,
\* and at most one BookRetriever and at most one SmartLibrarian are ever
\* constructed in the process.
C26_AccessorsAreSingletons ==
    /\ Cardinality(Constructed("BookRetriever")) <= 1
    /\ Cardinality(Constructed("SmartLibrarian")) <= 1
    /\ Cardinality(ReturnedBy("get_retriever")) <= 1
    /\ Cardinality(ReturnedBy("get_chatbot")) <= 1

\* the tool message at position j of a request follows, in that request,
\* the assistant message that asked for its tool call
FollowsItsCall(messages, j) ==
    \E i \in 1..(j - 1) :
        /\ messages[i].role = "assistant"
        /\ "tool_calls" \in DOMAIN messages[i]
        /\ \E k \in DOMAIN messages[i].tool_calls :
               messages[i].tool_calls[k].id = messages[j].tool_call_id

\* C27: in src/ai/llm.py, every role "tool" message of a request sent to
\* the model is preceded, in that request, by the assistant message whose
\* tool_calls holds its tool_call_id, in the first request of a turn and in
\* the follow-up request.
C27_WindowsKeepToolExchangesWhole ==
    (IsChat /\ impl = "ai") =>
        \A e \in DOMAIN last.events :
            last.events[e].kind = "model" =>
                \A j \in DOMAIN last.events[e].messages :
                    last.events[e].messages[j].role = "tool" =>
                        FollowsItsCall(last.events[e].messages, j)

\* C28: in src/ai/llm.py, after any sequence of chat() calls, get_history()
\* does not raise and returns the user and assistant entries of the history
\* in order, also when a tool-calling message or a final answer of the model
\* had no text content (None).
C28_AiGetHistoryNeverRaises ==
    impl = "ai" =>
        /\ ~ai_get_history.raised
        /\ [i \in DOMAIN ai_get_history.value |->
               << ai_get_history.value[i].role,
                  ai_get_history.value[i].content >>]
           = [i \in DOMAIN SelectSeq(conversation_history,
                                     LAMBDA m : m.role # "tool") |->
               << SelectSeq(conversation_history,
                            LAMBDA m : m.role # "tool")[i].role,
                  SelectSeq(conversation_history,
                            LAMBDA m : m.role # "tool")[i].content >>]

\* C29: two books of a corpus with different titles never get the same
\* index id from _generate_book_id, so the batch that ingests a corpus of
\* pairwise different titles holds no id twice.
C29_BookIdInjectiveOnCorpus ==
    \A i, j \in DOMAIN rebuild.books :
        rebuild.books[i].title # rebuild.books[j].title =>
            _generate_book_id(rebuild.books[i].title)
                # _generate_book_id(rebuild.books[j].title)

\* C30: in the HTTP backend, the messages sent to the model for a client's
\* /api/chat request hold no entry recorded for a request of another
\* client, and a DELETE /api/chat/history of one client leaves in the
\* history every entry recorded for the other clients.
C30_ClientsDoNotInterfere ==
    /\ IsChat =>
           \A e \in DOMAIN last.events :
               last.events[e].kind = "model" =>
                   \A j \in DOMAIN last.events[e].messages :
                       "turn" \in DOMAIN last.events[e].messages[j] =>
                           request_client[last.events[e].messages[j].turn]
                               = request_client[turns]
    /\ last.op = "clear" =>
           \A i \in DOMAIN last.before :
               request_client[last.before[i].turn] # last.input =>
                   \E j \in DOMAIN conversation_history :
                       conversation_history[j] = last.before[i]

====
